---- MODULE Spec2Model ----
(***************************************************************************)
(* Voice ordering backend (src/app.py): the intent classification and      *)
(* order extraction pipeline, the cart merge and the per-session store.    *)
(*                                                                         *)
(* Python strings are modelled as sequences of one-character strings.  A   *)
(* string literal of the program, an utterance or a reply of the external  *)
(* service is named by a TLA+ string and Str gives its characters.  Prices *)
(* are integer cents.                                                      *)
(***************************************************************************)
EXTENDS Integers, Sequences, FiniteSets, TLC

VARIABLES
  configured,            \* bool(model): the generation service was configured at startup
  carts,                 \* carts: session id -> list of line items
  conversation_history,  \* conversation_history: session id -> list of records
  response,              \* the HTTP response of the last request
  last,                  \* the last request: its inputs and the state before it
  nreq,                  \* number of requests served so far
  cleared,               \* history variable: the sessions cleared and not added to since,
                         \* each with the cart it held when it was cleared
  threads,               \* the requests served step by step: thread -> its position and locals
  dicts,                 \* the line item dicts created by those requests, by identity
  cart_ids,              \* session id -> the identities of the dicts in its cart's list
  run                    \* history variable: the stores those requests started from

conc_vars == <<threads, dicts, cart_ids, run>>
vars == <<configured, carts, conversation_history, response, last, nreq, cleared,
          threads, dicts, cart_ids, run>>

(***************************************************************************)
(* Characters of the strings used.  "U+00B2" is the one character           *)
(* SUPERSCRIPT TWO.                                                        *)
(***************************************************************************)
Str ==
  ("burger" :> <<"b", "u", "r", "g", "e", "r">>) @@
  ("cheeseburger" :> <<"c", "h", "e", "e", "s", "e", "b", "u", "r", "g", "e", "r">>) @@
  ("pizza" :> <<"p", "i", "z", "z", "a">>) @@
  ("pasta" :> <<"p", "a", "s", "t", "a">>) @@
  ("salad" :> <<"s", "a", "l", "a", "d">>) @@
  ("fries" :> <<"f", "r", "i", "e", "s">>) @@
  ("chicken wings" :> <<"c", "h", "i", "c", "k", "e", "n", " ", "w", "i", "n", "g", "s">>) @@
  ("sandwich" :> <<"s", "a", "n", "d", "w", "i", "c", "h">>) @@
  ("soda" :> <<"s", "o", "d", "a">>) @@
  ("water" :> <<"w", "a", "t", "e", "r">>) @@
  ("coffee" :> <<"c", "o", "f", "f", "e", "e">>) @@
  ("milkshake" :> <<"m", "i", "l", "k", "s", "h", "a", "k", "e">>) @@
  ("hi" :> <<"h", "i">>) @@
  ("hello" :> <<"h", "e", "l", "l", "o">>) @@
  ("hey" :> <<"h", "e", "y">>) @@
  ("good morning" :> <<"g", "o", "o", "d", " ", "m", "o", "r", "n", "i", "n", "g">>) @@
  ("good afternoon" :> <<"g", "o", "o", "d", " ", "a", "f", "t", "e", "r", "n", "o", "o", "n">>) @@
  ("good evening" :> <<"g", "o", "o", "d", " ", "e", "v", "e", "n", "i", "n", "g">>) @@
  ("how are you" :> <<"h", "o", "w", " ", "a", "r", "e", " ", "y", "o", "u">>) @@
  ("thanks" :> <<"t", "h", "a", "n", "k", "s">>) @@
  ("thank you" :> <<"t", "h", "a", "n", "k", " ", "y", "o", "u">>) @@
  ("okay" :> <<"o", "k", "a", "y">>) @@
  ("ok" :> <<"o", "k">>) @@
  ("yes" :> <<"y", "e", "s">>) @@
  ("no" :> <<"n", "o">>) @@
  ("sure" :> <<"s", "u", "r", "e">>) @@
  ("alright" :> <<"a", "l", "r", "i", "g", "h", "t">>) @@
  ("please" :> <<"p", "l", "e", "a", "s", "e">>) @@
  ("clear" :> <<"c", "l", "e", "a", "r">>) @@
  ("empty cart" :> <<"e", "m", "p", "t", "y", " ", "c", "a", "r", "t">>) @@
  ("remove everything" :> <<"r", "e", "m", "o", "v", "e", " ", "e", "v", "e", "r", "y", "t", "h", "i", "n", "g">>) @@
  ("reset cart" :> <<"r", "e", "s", "e", "t", " ", "c", "a", "r", "t">>) @@
  ("checkout" :> <<"c", "h", "e", "c", "k", "o", "u", "t">>) @@
  ("check out" :> <<"c", "h", "e", "c", "k", " ", "o", "u", "t">>) @@
  ("complete order" :> <<"c", "o", "m", "p", "l", "e", "t", "e", " ", "o", "r", "d", "e", "r">>) @@
  ("complete my order" :> <<"c", "o", "m", "p", "l", "e", "t", "e", " ", "m", "y", " ", "o", "r", "d", "e", "r">>) @@
  ("finish order" :> <<"f", "i", "n", "i", "s", "h", " ", "o", "r", "d", "e", "r">>) @@
  ("done" :> <<"d", "o", "n", "e">>) @@
  ("that's all" :> <<"t", "h", "a", "t", "'", "s", " ", "a", "l", "l">>) @@
  ("that is all" :> <<"t", "h", "a", "t", " ", "i", "s", " ", "a", "l", "l">>) @@
  ("finish" :> <<"f", "i", "n", "i", "s", "h">>) @@
  ("place order" :> <<"p", "l", "a", "c", "e", " ", "o", "r", "d", "e", "r">>) @@
  ("place my order" :> <<"p", "l", "a", "c", "e", " ", "m", "y", " ", "o", "r", "d", "e", "r">>) @@
  ("complete" :> <<"c", "o", "m", "p", "l", "e", "t", "e">>) @@
  ("i'm done" :> <<"i", "'", "m", " ", "d", "o", "n", "e">>) @@
  ("im done" :> <<"i", "m", " ", "d", "o", "n", "e">>) @@
  ("a" :> <<"a">>) @@
  ("an" :> <<"a", "n">>) @@
  ("one" :> <<"o", "n", "e">>) @@
  ("two" :> <<"t", "w", "o">>) @@
  ("three" :> <<"t", "h", "r", "e", "e">>) @@
  ("four" :> <<"f", "o", "u", "r">>) @@
  ("five" :> <<"f", "i", "v", "e">>) @@
  ("six" :> <<"s", "i", "x">>) @@
  ("seven" :> <<"s", "e", "v", "e", "n">>) @@
  ("eight" :> <<"e", "i", "g", "h", "t">>) @@
  ("nine" :> <<"n", "i", "n", "e">>) @@
  ("ten" :> <<"t", "e", "n">>) @@
  ("Hi " :> <<"H", "i", " ">>) @@
  ("clear my cart and checkout a burger" :> <<"c", "l", "e", "a", "r", " ", "m", "y", " ", "c", "a", "r", "t", " ", "a", "n", "d", " ", "c", "h", "e", "c", "k", "o", "u", "t", " ", "a", " ", "b", "u", "r", "g", "e", "r">>) @@
  ("ok I'm done with a burger" :> <<"o", "k", " ", "I", "'", "m", " ", "d", "o", "n", "e", " ", "w", "i", "t", "h", " ", "a", " ", "b", "u", "r", "g", "e", "r">>) @@
  ("a burger" :> <<"a", " ", "b", "u", "r", "g", "e", "r">>) @@
  ("one burger" :> <<"o", "n", "e", " ", "b", "u", "r", "g", "e", "r">>) @@
  ("two burgers and a pizza" :> <<"t", "w", "o", " ", "b", "u", "r", "g", "e", "r", "s", " ", "a", "n", "d", " ", "a", " ", "p", "i", "z", "z", "a">>) @@
  ("0 burger" :> <<"0", " ", "b", "u", "r", "g", "e", "r">>) @@
  ("what is good" :> <<"w", "h", "a", "t", " ", "i", "s", " ", "g", "o", "o", "d">>) @@
  (" Pizza " :> <<" ", "P", "i", "z", "z", "a", " ">>) @@
  ("cheeseburgers" :> <<"c", "h", "e", "e", "s", "e", "b", "u", "r", "g", "e", "r", "s">>) @@
  ("sushi" :> <<"s", "u", "s", "h", "i">>) @@
  (" 'Yum!' " :> <<" ", "'", "Y", "u", "m", "!", "'", " ">>) @@
  ("I'd like a cheeseburger and two sodas" :> <<"I", "'", "d", " ", "l", "i", "k", "e", " ", "a", " ", "c", "h", "e", "e", "s", "e", "b", "u", "r", "g", "e", "r", " ", "a", "n", "d", " ", "t", "w", "o", " ", "s", "o", "d", "a", "s">>) @@
  ("please anything" :> <<"p", "l", "e", "a", "s", "e", " ", "a", "n", "y", "t", "h", "i", "n", "g">>) @@
  ("please a burger" :> <<"p", "l", "e", "a", "s", "e", " ", "a", " ", "b", "u", "r", "g", "e", "r">>) @@
  ("another burger" :> <<"a", "n", "o", "t", "h", "e", "r", " ", "b", "u", "r", "g", "e", "r">>) @@
  ("HELLO" :> <<"H", "E", "L", "L", "O">>) @@
  ("heyyy" :> <<"h", "e", "y", "y", "y">>) @@
  (" PLEASE " :> <<" ", "P", "L", "E", "A", "S", "E", " ">>) @@
  ("burger and fries" :> <<"b", "u", "r", "g", "e", "r", " ", "a", "n", "d", " ", "f", "r", "i", "e", "s">>) @@
  ("3 chicken wings" :> <<"3", " ", "c", "h", "i", "c", "k", "e", "n", " ", "w", "i", "n", "g", "s">>) @@
  ("twelve sodas" :> <<"t", "w", "e", "l", "v", "e", " ", "s", "o", "d", "a", "s">>) @@
  ("burger or two burgers" :> <<"b", "u", "r", "g", "e", "r", " ", "o", "r", " ", "t", "w", "o", " ", "b", "u", "r", "g", "e", "r", "s">>) @@
  ("U+00B2 burger" :> <<"U+00B2", " ", "b", "u", "r", "g", "e", "r">>) @@
  ("" :> <<>>)

Min(S) == CHOOSE x \in S : \A y \in S : x <= y
Max(S) == CHOOSE x \in S : \A y \in S : x >= y

\* str.lower(), on the characters in use
UpperToLower ==
  ("A" :> "a") @@ ("B" :> "b") @@ ("C" :> "c") @@ ("D" :> "d") @@ ("E" :> "e") @@
  ("F" :> "f") @@ ("G" :> "g") @@ ("H" :> "h") @@ ("I" :> "i") @@ ("J" :> "j") @@
  ("K" :> "k") @@ ("L" :> "l") @@ ("M" :> "m") @@ ("N" :> "n") @@ ("O" :> "o") @@
  ("P" :> "p") @@ ("Q" :> "q") @@ ("R" :> "r") @@ ("S" :> "s") @@ ("T" :> "t") @@
  ("U" :> "u") @@ ("V" :> "v") @@ ("W" :> "w") @@ ("X" :> "x") @@ ("Y" :> "y") @@
  ("Z" :> "z")

Lower(s) ==
  [i \in 1..Len(s) |-> IF s[i] \in DOMAIN UpperToLower THEN UpperToLower[s[i]] ELSE s[i]]

Whitespace == {" ", "\t", "\n", "\r"}
Digits == {"0", "1", "2", "3", "4", "5", "6", "7", "8", "9"}
\* characters that str.isdigit() and \w accept and int() rejects
NonDecimalDigits == {"U+00B2"}
\* \w of the re module
WordChars ==
  DOMAIN UpperToLower \cup {UpperToLower[c] : c \in DOMAIN UpperToLower} \cup Digits
    \cup NonDecimalDigits \cup {"_"}

\* str.strip(chars)
Strip(s, chars) ==
  LET keep == {i \in 1..Len(s) : s[i] \notin chars}
  IN  IF keep = {} THEN <<>> ELSE SubSeq(s, Min(keep), Max(keep))

\* the needle occurs in hay at index i
OccursAt(needle, hay, i) ==
  /\ i >= 1
  /\ i + Len(needle) - 1 <= Len(hay)
  /\ \A k \in 1..Len(needle) : hay[i + k - 1] = needle[k]

\* needle in hay
In(needle, hay) == \E i \in 1..(Len(hay) + 1) : OccursAt(needle, hay, i)

\* the elements of a sequence
Range(s) == {s[i] : i \in 1..Len(s)}

(***************************************************************************)
(* Menu catalog.                                                           *)
(***************************************************************************)
\* MENU.keys(), in the dict's insertion order
MenuKeys ==
  <<"burger", "cheeseburger", "pizza", "pasta", "salad", "fries",
    "chicken wings", "sandwich", "soda", "water", "coffee", "milkshake">>

MENU ==
  ("burger"        :> [name |-> "Burger",        price |-> 899])  @@
  ("cheeseburger"  :> [name |-> "Cheeseburger",  price |-> 999])  @@
  ("pizza"         :> [name |-> "Pizza",         price |-> 1299]) @@
  ("pasta"         :> [name |-> "Pasta",         price |-> 1099]) @@
  ("salad"         :> [name |-> "Salad",         price |-> 799])  @@
  ("fries"         :> [name |-> "Fries",         price |-> 399])  @@
  ("chicken wings" :> [name |-> "Chicken Wings", price |-> 1199]) @@
  ("sandwich"      :> [name |-> "Sandwich",      price |-> 699])  @@
  ("soda"          :> [name |-> "Soda",          price |-> 299])  @@
  ("water"         :> [name |-> "Water",         price |-> 199])  @@
  ("coffee"        :> [name |-> "Coffee",        price |-> 349])  @@
  ("milkshake"     :> [name |-> "Milkshake",     price |-> 599])

(***************************************************************************)
(* Values of a line item's quantity.  The fallback path produces integers; *)
(* the primary path stores whatever JSON value the service reported: an    *)
(* integer, null, or a string (val: how many copies of the reported string *)
(* it holds, one until strings are concatenated).                          *)
(***************************************************************************)
JInt(n) == [type |-> "int", val |-> n]
JNull == [type |-> "null", val |-> 0]
JStr == [type |-> "str", val |-> 1]
JMissing == [type |-> "missing", val |-> 0]

\* the dict appended to valid_items / items
LineItem(key, quantity) ==
  [key |-> key, name |-> MENU[key].name, price |-> MENU[key].price, quantity |-> quantity]

(***************************************************************************)
(* Intent classification.                                                  *)
(***************************************************************************)
\* casual_patterns: ^lit$, or ^lit+$ (the last character repeated) when plus
casual_patterns ==
  << [lit |-> "hi", plus |-> TRUE], [lit |-> "hello", plus |-> TRUE],
     [lit |-> "hey", plus |-> TRUE], [lit |-> "good morning", plus |-> FALSE],
     [lit |-> "good afternoon", plus |-> FALSE], [lit |-> "good evening", plus |-> FALSE],
     [lit |-> "how are you", plus |-> FALSE], [lit |-> "thanks", plus |-> FALSE],
     [lit |-> "thank you", plus |-> FALSE], [lit |-> "okay", plus |-> FALSE],
     [lit |-> "ok", plus |-> FALSE], [lit |-> "yes", plus |-> FALSE],
     [lit |-> "no", plus |-> FALSE], [lit |-> "sure", plus |-> FALSE],
     [lit |-> "alright", plus |-> FALSE], [lit |-> "please", plus |-> FALSE] >>

\* re.match(pattern, t)
PatternMatches(pattern, t) ==
  LET p == Str[pattern.lit]
      n == Len(p)
  IN  IF pattern.plus
      THEN /\ Len(t) >= n
           /\ SubSeq(t, 1, n) = p
           /\ \A k \in (n + 1)..Len(t) : t[k] = p[n]
      ELSE t = p

is_greeting_or_casual(text) ==
  LET text_lower == Strip(Lower(text), Whitespace)
  IN  \E i \in 1..Len(casual_patterns) : PatternMatches(casual_patterns[i], text_lower)

clear_words == <<"clear", "empty cart", "remove everything", "reset cart">>

checkout_phrases ==
  <<"checkout", "check out", "complete order", "complete my order",
    "finish order", "done", "that's all", "that is all", "finish",
    "place order", "place my order", "complete", "i'm done", "im done">>

\* any(word in lower_text for word in words)
AnyIn(words, lower_text) == \E i \in 1..Len(words) : In(Str[words[i]], lower_text)

(***************************************************************************)
(* Fallback extraction.                                                    *)
(***************************************************************************)
quantity_map ==
  ("a" :> 1) @@ ("an" :> 1) @@ ("one" :> 1) @@ ("two" :> 2) @@ ("three" :> 3) @@
  ("four" :> 4) @@ ("five" :> 5) @@ ("six" :> 6) @@ ("seven" :> 7) @@
  ("eight" :> 8) @@ ("nine" :> 9) @@ ("ten" :> 10)

DigitValue ==
  ("0" :> 0) @@ ("1" :> 1) @@ ("2" :> 2) @@ ("3" :> 3) @@ ("4" :> 4) @@
  ("5" :> 5) @@ ("6" :> 6) @@ ("7" :> 7) @@ ("8" :> 8) @@ ("9" :> 9)

\* int(word), for a word of digits
RECURSIVE ParseInt(_)
ParseInt(word) ==
  IF word = <<>> THEN 0
  ELSE 10 * ParseInt(SubSeq(word, 1, Len(word) - 1)) + DigitValue[word[Len(word)]]

\* the end (exclusive) of the longest run of characters of `class` starting at i
RunEnd(t, i, class) ==
  Min({j \in i..(Len(t) + 1) : j = Len(t) + 1 \/ t[j] \notin class})

\* a match of (\w+)\s+key starts at i: the word run at i, then white space, then the key
PatternMatchAt(t, key, i) ==
  /\ t[i] \in WordChars
  /\ LET e == RunEnd(t, i, WordChars)
         f == RunEnd(t, e, Whitespace)
     IN  f > e /\ OccursAt(key, t, f)

\* re.search(r'(\w+)\s+' + menu_key, text_lower): group(1) of the leftmost match, or "none"
SearchQtyWord(t, key) ==
  LET starts == {i \in 1..Len(t) : PatternMatchAt(t, key, i)}
  IN  IF starts = {} THEN [found |-> FALSE, word |-> <<>>]
      ELSE LET i == Min(starts)
           IN  [found |-> TRUE, word |-> SubSeq(t, i, RunEnd(t, i, WordChars) - 1)]

\* qty_word.isdigit()
IsDigit(word) ==
  word # <<>> /\ \A k \in 1..Len(word) : word[k] \in Digits \cup NonDecimalDigits

\* int(qty_word) raises ValueError
IntRaises(word) == \E k \in 1..Len(word) : word[k] \notin Digits

\* the quantity fallback_extract_order gives menu_key in text_lower; it is 1 when
\* int(qty_word) raises
FallbackQuantity(text_lower, menu_key) ==
  LET m == SearchQtyWord(text_lower, Str[menu_key])
      words == {w \in DOMAIN quantity_map : Str[w] = m.word}
  IN  IF ~m.found THEN 1
      ELSE IF words # {} THEN quantity_map[CHOOSE w \in words : TRUE]
      ELSE IF IsDigit(m.word) /\ ~IntRaises(m.word) THEN ParseInt(m.word)
      ELSE 1

\* fallback_extract_order raises: the word before a menu key of the text is of digits
\* and int rejects it
FallbackRaises(user_text) ==
  LET text_lower == Lower(user_text)
  IN  \E i \in 1..Len(MenuKeys) :
        /\ In(Str[MenuKeys[i]], text_lower)
        /\ LET m == SearchQtyWord(text_lower, Str[MenuKeys[i]])
           IN  /\ m.found
               /\ \A w \in DOMAIN quantity_map : Str[w] # m.word
               /\ IsDigit(m.word) /\ IntRaises(m.word)

\* the list fallback_extract_order returns when it does not raise
fallback_extract_order(user_text) ==
  LET text_lower == Lower(user_text)
      hits == SelectSeq(MenuKeys, LAMBDA k : In(Str[k], text_lower))
  IN  [i \in 1..Len(hits) |-> LineItem(hits[i], JInt(FallbackQuantity(text_lower, hits[i])))]

(***************************************************************************)
(* Primary extraction.  The outcome of model.generate_content and of       *)
(* json.loads is an input: the call raises ("raise"), the text holds no    *)
(* JSON ("nojson"), or it parses to an array of elements ("array").  An    *)
(* element is an object or not; an object reports an item (a string, null  *)
(* or missing) and a quantity (an integer, null, a string or missing).     *)
(***************************************************************************)
SvcRaise == [kind |-> "raise", elems |-> <<>>]
SvcNoJson == [kind |-> "nojson", elems |-> <<>>]
SvcArray(elems) == [kind |-> "array", elems |-> elems]
Obj(item, quantity) == [obj |-> TRUE, item |-> [type |-> "str", val |-> item], quantity |-> quantity]
ObjNoItem(quantity) == [obj |-> TRUE, item |-> [type |-> "missing", val |-> ""], quantity |-> quantity]
ObjNullItem(quantity) == [obj |-> TRUE, item |-> [type |-> "null", val |-> ""], quantity |-> quantity]
NonObject == [obj |-> FALSE, item |-> [type |-> "missing", val |-> ""], quantity |-> JMissing]

\* item.get('item', '').lower().strip() raises on a non-object and on a non-string item
ElementRaises(e) == ~e.obj \/ e.item.type = "null"

\* item.get('quantity', 1)
ReportedQuantity(e) == IF e.quantity.type = "missing" THEN JInt(1) ELSE e.quantity

\* the menu key of a reported name: the exact key, else the first key containing the
\* name or contained in it, else none
MatchMenuKey(item_name) ==
  LET exact == {k \in DOMAIN MENU : Str[k] = item_name}
      fuzzy == {i \in 1..Len(MenuKeys) :
                  In(Str[MenuKeys[i]], item_name) \/ In(item_name, Str[MenuKeys[i]])}
  IN  IF exact # {} THEN <<CHOOSE k \in exact : TRUE>>
      ELSE IF fuzzy # {} THEN <<MenuKeys[Min(fuzzy)]>>
      ELSE <<>>

\* the entries one element adds to valid_items
ValidItems(e) ==
  LET item_name == Strip(Lower(Str[e.item.val]), Whitespace)
      hit == MatchMenuKey(item_name)
  IN  IF hit = <<>> THEN <<>> ELSE <<LineItem(hit[1], ReportedQuantity(e))>>

RECURSIVE ValidateItems(_)
ValidateItems(elems) ==
  IF elems = <<>> THEN <<>> ELSE ValidItems(Head(elems)) \o ValidateItems(Tail(elems))

\* the try block of extract_order_with_gemini raises
PrimaryRaises(svc) ==
  \/ svc.kind \in {"raise", "nojson"}
  \/ \E i \in 1..Len(svc.elems) : ElementRaises(svc.elems[i])

(* What the handler computes from the text of a request alone, tabulated    *)
(* over the strings in use: the table entry of a string is the function     *)
(* applied to its characters.                                               *)
Casual == [u \in DOMAIN Str |-> is_greeting_or_casual(Str[u])]
HasClearWord == [u \in DOMAIN Str |-> AnyIn(clear_words, Lower(Str[u]))]
HasCheckoutPhrase == [u \in DOMAIN Str |-> AnyIn(checkout_phrases, Lower(Str[u]))]
Fallback == [u \in DOMAIN Str |-> fallback_extract_order(Str[u])]
FallbackRaisesOn == [u \in DOMAIN Str |-> FallbackRaises(Str[u])]

\* extract_order_with_gemini raises: the fallback it returns raises
ExtractRaises(user_text, model, svc) ==
  /\ ~Casual[user_text]
  /\ ~model \/ PrimaryRaises(svc)
  /\ FallbackRaisesOn[user_text]

\* the list extract_order_with_gemini returns when it does not raise
extract_order_with_gemini(user_text, model, svc) ==
  IF Casual[user_text] THEN <<>>
  ELSE IF ~model THEN Fallback[user_text]
  ELSE IF PrimaryRaises(svc) THEN Fallback[user_text]
  ELSE ValidateItems(svc.elems)

(***************************************************************************)
(* Cart merge and total.                                                   *)
(***************************************************************************)
\* a += b on quantities: defined on two integers (the sum) and on two strings (the
\* concatenation)
AddRaises(a, b) == ~(a.type = b.type /\ a.type \in {"int", "str"})
AddQuantity(a, b) == [type |-> a.type, val |-> a.val + b.val]

\* mutant of FindLine: the line of the key is never found
FindLineNever(cart, key) == 0

\* next((i for x in cart if x['key'] == key), None), as an index (0: None)
FindLine(cart, key) ==
  LET at == {i \in 1..Len(cart) : cart[i].key = key}
  IN  IF at = {} THEN 0 ELSE Min(at)

(* The loop over extracted_items from item i on.  An appended item is the   *)
(* same dict as the cart's new line: alias[j] is the cart index of          *)
(* extracted item j when it was appended, else 0, and an increment of that  *)
(* line is an increment of extracted item j too.  raised: a += raised and   *)
(* the loop stopped there, with the cart as changed so far.                 *)
RECURSIVE MergeFrom(_, _, _, _)
MergeFrom(cart, items, alias, i) ==
  IF i > Len(items) THEN [cart |-> cart, items |-> items, raised |-> FALSE]
  ELSE LET item == items[i]
           p == FindLine(cart, item.key)
       IN  IF p = 0
           THEN MergeFrom(Append(cart, item), items, [alias EXCEPT ![i] = Len(cart) + 1], i + 1)
           ELSE IF AddRaises(cart[p].quantity, item.quantity)
           THEN [cart |-> cart, items |-> items, raised |-> TRUE]
           ELSE LET q == AddQuantity(cart[p].quantity, item.quantity)
                    items2 == [j \in 1..Len(items) |->
                                 IF alias[j] = p THEN [items[j] EXCEPT !.quantity = q]
                                 ELSE items[j]]
                IN  MergeFrom([cart EXCEPT ![p].quantity = q], items2, alias, i + 1)

MergeItems(cart, extracted_items) ==
  MergeFrom(cart, extracted_items, [j \in 1..Len(extracted_items) |-> 0], 1)

\* price * quantity raises on a quantity that is no number
TotalRaises(cart) == \E i \in 1..Len(cart) : cart[i].quantity.type # "int"

RECURSIVE CartTotalOfPrices(_)
\* mutant of CartTotal: the sum of the prices, whatever the quantities
CartTotalOfPrices(cart) ==
  IF cart = <<>> THEN 0 ELSE Head(cart).price + CartTotalOfPrices(Tail(cart))

RECURSIVE CartTotal(_)
\* sum(item['price'] * item['quantity'] for item in cart), in cents
CartTotal(cart) ==
  IF cart = <<>> THEN 0
  ELSE Head(cart).price * Head(cart).quantity.val + CartTotal(Tail(cart))

(***************************************************************************)
(* Response composer.  A text is a sequence of pieces (strings); the reply *)
(* of the generation service is an input: the call raises, or it returns   *)
(* the text named by gen.text.                                             *)
(***************************************************************************)
GenRaise == [kind |-> "raise", text |-> ""]
GenText(t) == [kind |-> "text", text |-> t]

\* f"{total:.2f}" of an amount in cents
Money(total) ==
  LET a == IF total < 0 THEN -total ELSE total
  IN  <<IF total < 0 THEN "-" ELSE "", ToString(a \div 100), ".",
        ToString((a % 100) \div 10), ToString(a % 10)>>

RECURSIVE ItemsText(_)
\* ', '.join(f"{item['quantity']} {item['name']}" for item in added_items)
ItemsText(added_items) ==
  IF added_items = <<>> THEN <<>>
  ELSE <<ToString(Head(added_items).quantity.val), " ", Head(added_items).name>>
       \o (IF Len(added_items) > 1 THEN <<", ">> ELSE <<>>)
       \o ItemsText(Tail(added_items))

get_fallback_response(action, added_items, total) ==
  IF action = "welcome"
  THEN <<"Hey! Welcome to ", "Twilight Cafe", "! I'm ", "Plato", ". What can I get you today?">>
  ELSE IF action = "greeting" THEN <<"Hey! What sounds good to you?">>
  ELSE IF action = "add" /\ added_items # <<>>
  THEN <<"Nice! Got your ">> \o ItemsText(added_items) \o <<". That's $">> \o Money(total)
         \o <<" so far. Want anything else?">>
  ELSE IF action = "no_items" THEN <<"Sorry, didn't catch that! What would you like?">>
  ELSE IF action = "checkout"
  THEN <<"Awesome! Thanks for ordering. Your total is $">> \o Money(total)
         \o <<". We'll have that ready soon!">>
  ELSE <<"What can I get for you?">>

\* the actions generate_response_with_gemini builds a prompt for
HasPrompt(action, added_items) ==
  \/ action \in {"welcome", "greeting", "no_items", "checkout"}
  \/ action = "add" /\ added_items # <<>>

\* mutant of generate_response_with_gemini: a failed call leaves the reply empty
GenerateWithoutFallback(added_items, total, action, model, gen) ==
  IF ~model THEN get_fallback_response(action, added_items, total)
  ELSE IF ~HasPrompt(action, added_items) THEN <<"What can I get for you?">>
  ELSE IF gen.kind = "raise" THEN <<>>
  ELSE Strip(Strip(Str[gen.text], Whitespace), {"\"", "'"})

generate_response_with_gemini(added_items, total, action, model, gen) ==
  IF ~model THEN get_fallback_response(action, added_items, total)
  ELSE IF ~HasPrompt(action, added_items) THEN <<"What can I get for you?">>
  ELSE IF gen.kind = "raise" THEN get_fallback_response(action, added_items, total)
  ELSE Strip(Strip(Str[gen.text], Whitespace), {"\"", "'"})

\* the generation call is made
GenCalled(action, added_items, model) == model /\ HasPrompt(action, added_items)

(***************************************************************************)
(* Session store.                                                          *)
(***************************************************************************)
HISTORY_MAX == 10

\* d[k] = [] if k not in d
SetDefault(d, k) == IF k \in DOMAIN d THEN d ELSE d @@ (k :> <<>>)

\* carts.get(session_id, [])
GetOr(d, k) == IF k \in DOMAIN d THEN d[k] ELSE <<>>

CustomerRecord(user_text) == [speaker |-> "Customer", text |-> <<user_text>>]
AssistantRecord(response_text) == [speaker |-> "Plato", text |-> response_text]

\* h[-n:]
LastN(h, n) == IF Len(h) > n THEN SubSeq(h, Len(h) - n + 1, Len(h)) ELSE h

\* the customer's record is appended and the history cut to its last HISTORY_MAX records
AppendCustomer(h, user_text) ==
  LET h1 == Append(h, CustomerRecord(user_text))
  IN  IF Len(h1) > HISTORY_MAX THEN LastN(h1, HISTORY_MAX) ELSE h1

\* the assistant's record is appended
AppendAssistant(h, response_text) == Append(h, AssistantRecord(response_text))

\* mutant of ClearCart: every session's cart is emptied
ClearAllCarts(c, session_id) == [s \in DOMAIN c |-> <<>>]

\* mutant of ClearCart: the cart is left as it is
ClearCartKeeps(c, session_id) == c

\* carts[session_id] = []
ClearCart(c, session_id) == [c EXCEPT ![session_id] = <<>>]

(***************************************************************************)
(* HTTP responses.  keys: the keys of the JSON body; a request whose       *)
(* handler raised is answered 500 with none.                               *)
(***************************************************************************)
Json(keys, success, cart, total, text, items_added, is_greeting, checkout) ==
  [status |-> 200, keys |-> keys, success |-> success, cart |-> cart, total |-> total,
   response |-> text, items_added |-> items_added, is_greeting |-> is_greeting,
   checkout |-> checkout]

ServerError ==
  [status |-> 500, keys |-> {}, success |-> FALSE, cart |-> <<>>, total |-> 0,
   response |-> <<>>, items_added |-> <<>>, is_greeting |-> FALSE, checkout |-> FALSE]

NoResponse ==
  [status |-> 0, keys |-> {}, success |-> FALSE, cart |-> <<>>, total |-> 0,
   response |-> <<>>, items_added |-> <<>>, is_greeting |-> FALSE, checkout |-> FALSE]

OrderKeys == {"success", "cart", "total", "response", "items_added"}
CheckoutKeys == {"success", "cart", "total", "response", "checkout"}

(***************************************************************************)
(* POST /api/process-order.  The handler as a function of the stores and   *)
(* of the request: the stores and the response it leaves, the branch it    *)
(* took, what the extractor returned and which external calls it made.     *)
(***************************************************************************)
Outcome(c, h, resp, branch, extracted, extractor_called, svc_called, gen_called) ==
  [carts |-> c, history |-> h, response |-> resp, branch |-> branch,
   extracted |-> extracted, extractor_called |-> extractor_called,
   svc_called |-> svc_called, gen_called |-> gen_called]

\* conversation_history[session_id].append(f"{ASSISTANT_NAME}: {response_text}")
Say(h, session_id, response_text) ==
  [h EXCEPT ![session_id] = AppendAssistant(@, response_text)]

\* the greeting branch, with the reply composed
GreetingReply(c1, h2, model, session_id, response_text) ==
  Outcome(c1, Say(h2, session_id, response_text),
          IF TotalRaises(c1[session_id]) THEN ServerError
          ELSE Json(OrderKeys \cup {"is_greeting"}, TRUE, c1[session_id],
                    CartTotal(c1[session_id]), response_text, <<>>, TRUE, FALSE),
          "greeting", <<>>, FALSE, FALSE, GenCalled("greeting", <<>>, model))

GreetingBranch(c1, h2, model, session_id, gen) ==
  GreetingReply(c1, h2, model, session_id,
                generate_response_with_gemini(<<>>, 0, "greeting", model, gen))

\* the clear-cart branch
ClearBranch(c1, h2, session_id) ==
  Outcome(ClearCart(c1, session_id),
          Say(h2, session_id, <<"Cart cleared! What would you like to order?">>),
          Json(OrderKeys, TRUE, <<>>, 0, <<"Cart cleared! What would you like to order?">>,
               <<>>, FALSE, FALSE),
          "clear", <<>>, FALSE, FALSE, FALSE)

\* checkout of a cart with lines, with the total and the reply computed
CheckoutReply(c1, h2, model, session_id, total, response_text) ==
  Outcome(c1, Say(h2, session_id, response_text),
          Json(CheckoutKeys, TRUE, c1[session_id], total, response_text, <<>>, FALSE, TRUE),
          "checkout", <<>>, FALSE, FALSE, GenCalled("checkout", <<>>, model))

CheckoutTotal(c1, h2, model, session_id, gen, total) ==
  CheckoutReply(c1, h2, model, session_id, total,
                generate_response_with_gemini(<<>>, total, "checkout", model, gen))

\* the checkout branch
CheckoutBranch(c1, h2, model, session_id, gen) ==
  IF c1[session_id] = <<>>
  THEN Outcome(c1, Say(h2, session_id, <<"Your cart's empty! What would you like?">>),
               Json(CheckoutKeys, FALSE, <<>>, 0, <<"Your cart's empty! What would you like?">>,
                    <<>>, FALSE, FALSE),
               "checkout_empty", <<>>, FALSE, FALSE, FALSE)
  ELSE IF TotalRaises(c1[session_id])
  THEN Outcome(c1, h2, ServerError, "checkout", <<>>, FALSE, FALSE, FALSE)
  ELSE CheckoutTotal(c1, h2, model, session_id, gen, CartTotal(c1[session_id]))

\* the order branch when nothing was extracted, with the reply composed
NoItemsReply(c1, h2, model, session_id, response_text) ==
  Outcome(c1, Say(h2, session_id, response_text),
          IF TotalRaises(c1[session_id]) THEN ServerError
          ELSE Json(OrderKeys, FALSE, c1[session_id], CartTotal(c1[session_id]),
                    response_text, <<>>, FALSE, FALSE),
          "no_items", <<>>, TRUE, model, GenCalled("no_items", <<>>, model))

\* the order branch after a merge m that did not raise, with the total and the reply
AddReply(c2, h2, model, session_id, extracted_items, m, total, response_text) ==
  Outcome(c2, Say(h2, session_id, response_text),
          Json(OrderKeys, TRUE, m.cart, total, response_text, m.items, FALSE, FALSE),
          "add", extracted_items, TRUE, model, GenCalled("add", m.items, model))

AddTotal(c2, h2, model, session_id, gen, extracted_items, m, total) ==
  AddReply(c2, h2, model, session_id, extracted_items, m, total,
           generate_response_with_gemini(m.items, total, "add", model, gen))

\* the order branch after the loop over extracted_items, whose result is m
AddMerged(c1, h2, model, session_id, gen, extracted_items, m) ==
  IF m.raised \/ TotalRaises(m.cart)
  THEN Outcome([c1 EXCEPT ![session_id] = m.cart], h2, ServerError, "add",
               extracted_items, TRUE, model, FALSE)
  ELSE AddTotal([c1 EXCEPT ![session_id] = m.cart], h2, model, session_id, gen,
                extracted_items, m, CartTotal(m.cart))

\* the order branch, with the extractor's result
OrderExtracted(c1, h2, model, session_id, gen, extracted_items) ==
  IF extracted_items = <<>>
  THEN NoItemsReply(c1, h2, model, session_id,
                    generate_response_with_gemini(<<>>, 0, "no_items", model, gen))
  ELSE AddMerged(c1, h2, model, session_id, gen, extracted_items,
                 MergeItems(c1[session_id], extracted_items))

\* the order branch: extraction, then no items or the merge into the cart
OrderBranch(c1, h2, model, session_id, user_text, svc, gen) ==
  IF ExtractRaises(user_text, model, svc)
  THEN Outcome(c1, h2, ServerError, "extract_raised", <<>>, TRUE, model, FALSE)
  ELSE OrderExtracted(c1, h2, model, session_id, gen,
                      extract_order_with_gemini(user_text, model, svc))

\* mutant of Dispatch: the checkout phrases are looked for before the clear words
DispatchCheckoutFirst(c1, h2, model, session_id, user_text, svc, gen) ==
  IF Casual[user_text] THEN GreetingBranch(c1, h2, model, session_id, gen)
  ELSE IF HasCheckoutPhrase[user_text]
  THEN CheckoutBranch(c1, h2, model, session_id, gen)
  ELSE IF HasClearWord[user_text] THEN ClearBranch(c1, h2, session_id)
  ELSE OrderBranch(c1, h2, model, session_id, user_text, svc, gen)

\* the branches, on the stores with the session created and the customer's record appended
Dispatch(c1, h2, model, session_id, user_text, svc, gen) ==
  IF Casual[user_text] THEN GreetingBranch(c1, h2, model, session_id, gen)
  ELSE IF HasClearWord[user_text] THEN ClearBranch(c1, h2, session_id)
  ELSE IF HasCheckoutPhrase[user_text]
  THEN CheckoutBranch(c1, h2, model, session_id, gen)
  ELSE OrderBranch(c1, h2, model, session_id, user_text, svc, gen)

process_order(c0, h0, model, session_id, user_text, svc, gen) ==
  Dispatch(SetDefault(c0, session_id),
           [SetDefault(h0, session_id) EXCEPT ![session_id] = AppendCustomer(@, user_text)],
           model, session_id, user_text, svc, gen)

\* mutant of get_cart: carts[session_id], which raises on a session id not stored
get_cart_strict(c0, session_id) ==
  IF session_id \notin DOMAIN c0 \/ TotalRaises(c0[session_id]) THEN ServerError
  ELSE Json({"cart", "total"}, FALSE, c0[session_id], CartTotal(c0[session_id]), <<>>, <<>>,
            FALSE, FALSE)

\* GET /api/cart/<session_id>
get_cart(c0, session_id) ==
  LET cart == GetOr(c0, session_id)
  IN  IF TotalRaises(cart) THEN ServerError
      ELSE Json({"cart", "total"}, FALSE, cart, CartTotal(cart), <<>>, <<>>, FALSE, FALSE)

\* GET /api/welcome
get_welcome(model, gen) ==
  Json({"response"}, FALSE, <<>>, 0,
       generate_response_with_gemini(<<>>, 0, "welcome", model, gen), <<>>, FALSE, FALSE)

(***************************************************************************)
(* The requests.  last records the request just served: its inputs (an     *)
(* external outcome that no call consumed is recorded as not called), the  *)
(* session's cart and history before it, and what the handler did.         *)
(***************************************************************************)
SvcNotCalled == [kind |-> "notcalled", elems |-> <<>>]
GenNotCalled == [kind |-> "notcalled", text |-> ""]

NoRequest ==
  [op |-> "none", session_id |-> "", text |-> "", svc |-> SvcNotCalled,
   gen |-> GenNotCalled, branch |-> "", extracted |-> <<>>, extractor_called |-> FALSE,
   known_before |-> FALSE, cart_before |-> <<>>, history_before |-> <<>>]

\* the threads of the server
Threads == {1, 2}

\* a thread that serves no request
IdleThread ==
  [pc |-> "idle", op |-> "none", session_id |-> "", text |-> "", absent |-> FALSE,
   slice |-> <<>>, branch |-> "", extracted |-> <<>>, items |-> <<>>, i |-> 0,
   existing |-> 0, tmp |-> JMissing, total |-> 0, action |-> "", ret |-> "",
   reply |-> <<>>, response |-> NoResponse, svc |-> SvcNotCalled, gen |-> GenNotCalled]

NoRun == [carts |-> <<>>, history |-> <<>>, overlapped |-> FALSE]

Init ==
  /\ configured \in BOOLEAN
  /\ carts = <<>>
  /\ conversation_history = <<>>
  /\ response = NoResponse
  /\ last = NoRequest
  /\ nreq = 0
  /\ cleared = <<>>
  /\ threads = [t \in Threads |-> IdleThread]
  /\ dicts = <<>>
  /\ cart_ids = <<>>
  /\ run = NoRun

\* cleared, after a request that took `branch` on a session whose cart was cart_before:
\* the clear branch (app.py:355) enters the session, the merge loop (app.py:417-422)
\* removes it
ClearedAfter(cl, branch, session_id, cart_before) ==
  IF branch = "clear"
  THEN [s \in DOMAIN cl \cup {session_id} |-> IF s = session_id THEN cart_before ELSE cl[s]]
  ELSE IF branch = "add" THEN [s \in DOMAIN cl \ {session_id} |-> cl[s]]
  ELSE cl

\* the request served, r being what the handler computed
Served(r, session_id, user_text, svc, gen) ==
  /\ carts' = r.carts
  /\ conversation_history' = r.history
  /\ response' = r.response
  /\ last' = [op |-> "process_order", session_id |-> session_id, text |-> user_text,
              svc |-> IF r.svc_called THEN svc ELSE SvcNotCalled,
              gen |-> IF r.gen_called THEN gen ELSE GenNotCalled,
              branch |-> r.branch, extracted |-> r.extracted,
              extractor_called |-> r.extractor_called,
              known_before |-> session_id \in DOMAIN carts,
              cart_before |-> GetOr(carts, session_id),
              history_before |-> GetOr(conversation_history, session_id)]
  /\ nreq' = nreq + 1
  /\ cleared' = ClearedAfter(cleared, r.branch, session_id, GetOr(carts, session_id))
  /\ UNCHANGED <<configured, conc_vars>>

ProcessOrder(session_id, user_text, svc, gen) ==
  Served(process_order(carts, conversation_history, configured, session_id, user_text,
                       svc, gen),
         session_id, user_text, svc, gen)

GetCart(session_id) ==
  /\ response' = get_cart(carts, session_id)
  /\ last' = [NoRequest EXCEPT !.op = "get_cart", !.session_id = session_id,
                               !.known_before = session_id \in DOMAIN carts,
                               !.cart_before = GetOr(carts, session_id),
                               !.history_before = GetOr(conversation_history, session_id)]
  /\ nreq' = nreq + 1
  /\ UNCHANGED <<configured, carts, conversation_history, cleared, conc_vars>>

GetWelcome(gen) ==
  /\ response' = get_welcome(configured, gen)
  /\ last' = [NoRequest EXCEPT !.op = "welcome",
                               !.gen = IF configured THEN gen ELSE GenNotCalled]
  /\ nreq' = nreq + 1
  /\ UNCHANGED <<configured, carts, conversation_history, cleared, conc_vars>>

(***************************************************************************)
(* The requests served by threads, one read or write of the shared maps    *)
(* per step.  The server runs each request on a thread of its own and      *)
(* process_order takes no lock.  A line item is a dict with an identity:   *)
(* dicts[id] is its value and cart_ids[session_id] lists the dicts of the  *)
(* session's cart, so that a reference a thread holds (existing_item, an   *)
(* extracted item it appended) stays a reference to the same dict whatever *)
(* the other thread does.  carts is kept as the value of cart_ids.         *)
(***************************************************************************)
\* the value of a list of dicts
CartOf(ids, d) == [k \in 1..Len(ids) |-> d[ids[k]]]
CartsOf(ci, d) == [s \in DOMAIN ci |-> CartOf(ci[s], d)]

\* a step of thread t: its locals become thr, the shared objects d, ci and h
Move(t, thr, d, ci, h) ==
  /\ threads' = [threads EXCEPT ![t] = thr]
  /\ dicts' = d
  /\ cart_ids' = ci
  /\ conversation_history' = h
  /\ carts' = CartsOf(ci, d)
  /\ UNCHANGED <<configured, response, last, nreq, cleared, run>>

\* a step of thread t that changes its locals only
Local(t, thr) == Move(t, thr, dicts, cart_ids, conversation_history)

\* the request of thread t is answered with resp
Return(thr, resp) == [thr EXCEPT !.pc = "done", !.response = resp]

\* some request is being served
Busy(t) == threads[t].pc \notin {"idle", "done"}

\* run, when a thread takes a request: the stores of before the first request, and
\* whether a request started while another was being served
RunAfterBegin(t) ==
  IF \A u \in Threads : threads[u].pc = "idle"
  THEN [carts |-> carts, history |-> conversation_history, overlapped |-> FALSE]
  ELSE [run EXCEPT !.overlapped = @ \/ \E u \in Threads \ {t} : Busy(u)]

\* a process-order request arrives at thread t (app.py:320-322)
BeginOrder(t, session_id, user_text) ==
  /\ threads[t].pc = "idle"
  /\ threads' = [threads EXCEPT ![t] = [IdleThread EXCEPT !.pc = "check_cart",
                                          !.op = "process_order",
                                          !.session_id = session_id,
                                          !.text = user_text]]
  /\ run' = RunAfterBegin(t)
  /\ UNCHANGED <<configured, carts, conversation_history, response, last, nreq, cleared,
                 dicts, cart_ids>>

\* if session_id not in carts (app.py:326)
CheckCart(t) ==
  /\ threads[t].pc = "check_cart"
  /\ Local(t, [threads[t] EXCEPT
                 !.pc = IF threads[t].session_id \in DOMAIN cart_ids THEN "check_history"
                        ELSE "create_cart"])

\* carts[session_id] = [] (app.py:327)
CreateCart(t) ==
  /\ threads[t].pc = "create_cart"
  /\ Move(t, [threads[t] EXCEPT !.pc = "check_history"], dicts,
          [s \in DOMAIN cart_ids \cup {threads[t].session_id} |->
             IF s = threads[t].session_id THEN <<>> ELSE cart_ids[s]],
          conversation_history)

\* if session_id not in conversation_history (app.py:328)
CheckHistory(t) ==
  /\ threads[t].pc = "check_history"
  /\ Local(t, [threads[t] EXCEPT
                 !.pc = IF threads[t].session_id \in DOMAIN conversation_history
                        THEN "append_customer" ELSE "create_history"])

\* conversation_history[session_id] = [] (app.py:329)
CreateHistory(t) ==
  /\ threads[t].pc = "create_history"
  /\ Move(t, [threads[t] EXCEPT !.pc = "append_customer"], dicts, cart_ids,
          [s \in DOMAIN conversation_history \cup {threads[t].session_id} |->
             IF s = threads[t].session_id THEN <<>> ELSE conversation_history[s]])

\* conversation_history[session_id].append(f"Customer: {user_text}") (app.py:331)
AppendCustomerRecord(t) ==
  /\ threads[t].pc = "append_customer"
  /\ Move(t, [threads[t] EXCEPT !.pc = "check_length"], dicts, cart_ids,
          [conversation_history EXCEPT
             ![threads[t].session_id] = Append(@, CustomerRecord(threads[t].text))])

\* the branch of an utterance (app.py:340, 354, 374)
BranchOf(user_text) ==
  IF Casual[user_text] THEN "greeting"
  ELSE IF HasClearWord[user_text] THEN "clear"
  ELSE IF HasCheckoutPhrase[user_text] THEN "checkout"
  ELSE "extract"

\* if len(conversation_history[session_id]) > 10, and the slice [-10:] read if so
\* (app.py:333-334)
CheckLength(t) ==
  /\ threads[t].pc = "check_length"
  /\ Local(t, IF Len(conversation_history[threads[t].session_id]) > HISTORY_MAX
              THEN [threads[t] EXCEPT
                      !.pc = "write_slice",
                      !.slice = LastN(conversation_history[threads[t].session_id],
                                      HISTORY_MAX)]
              ELSE [threads[t] EXCEPT !.pc = BranchOf(threads[t].text)])

\* conversation_history[session_id] = the slice (app.py:334)
WriteSlice(t) ==
  /\ threads[t].pc = "write_slice"
  /\ Move(t, [threads[t] EXCEPT !.pc = BranchOf(threads[t].text), !.slice = <<>>],
          dicts, cart_ids,
          [conversation_history EXCEPT ![threads[t].session_id] = threads[t].slice])


\* the session's cart as thread t reads it
CartSeen(t) == CartOf(cart_ids[threads[t].session_id], dicts)

\* generate_response_with_gemini is entered: without the service the reply is composed
\* at once, else the thread waits for model.generate_content (app.py:268)
StartGen(thr, action, added_items, total, ret) ==
  IF GenCalled(action, added_items, configured)
  THEN [thr EXCEPT !.pc = "gen_wait", !.action = action, !.total = total, !.ret = ret]
  ELSE [thr EXCEPT !.pc = ret, !.action = action, !.total = total,
                   !.reply = generate_response_with_gemini(added_items, total, action,
                                                           configured, GenNotCalled)]

\* the items the reply of thread t is about, as they are now
AddedItems(t) ==
  IF threads[t].action = "add" THEN CartOf(threads[t].items, dicts) ELSE <<>>

\* model.generate_content returns or raises (app.py:268-277)
GenReturns(t, gen) ==
  /\ threads[t].pc = "gen_wait"
  /\ Local(t, [threads[t] EXCEPT
                 !.pc = threads[t].ret,
                 !.gen = gen,
                 !.reply = generate_response_with_gemini(AddedItems(t), threads[t].total,
                                                         threads[t].action, TRUE, gen)])

\* the greeting branch composes its reply (app.py:341)
Greeting(t) ==
  /\ threads[t].pc = "greeting"
  /\ Local(t, StartGen([threads[t] EXCEPT !.branch = "greeting"], "greeting", <<>>, 0,
                       "append_assistant"))

\* carts[session_id] = [] and the reply of the clear branch (app.py:355-356)
ClearStep(t) ==
  /\ threads[t].pc = "clear"
  /\ Move(t, [threads[t] EXCEPT !.pc = "append_assistant", !.branch = "clear",
                                !.reply = <<"Cart cleared! What would you like to order?">>],
          dicts, [cart_ids EXCEPT ![threads[t].session_id] = <<>>], conversation_history)

\* if not carts[session_id] (app.py:375-376)
CheckoutCheck(t) ==
  /\ threads[t].pc = "checkout"
  /\ Local(t, IF cart_ids[threads[t].session_id] = <<>>
              THEN [threads[t] EXCEPT !.pc = "append_assistant", !.branch = "checkout_empty",
                                      !.reply = <<"Your cart's empty! What would you like?">>]
              ELSE [threads[t] EXCEPT !.pc = "checkout_sum", !.branch = "checkout"])

\* the total of the checkout and its reply (app.py:387-388)
CheckoutSum(t) ==
  /\ threads[t].pc = "checkout_sum"
  /\ Local(t, IF TotalRaises(CartSeen(t)) THEN Return(threads[t], ServerError)
              ELSE StartGen(threads[t], "checkout", <<>>, CartTotal(CartSeen(t)),
                            "append_assistant"))

\* conversation_history[session_id].append(f"{ASSISTANT_NAME}: {response_text}")
\* (app.py:342, 357, 377, 389, 406, 426)
AppendAssistantRecord(t) ==
  /\ threads[t].pc = "append_assistant"
  /\ Move(t, [threads[t] EXCEPT !.pc = "respond"], dicts, cart_ids,
          [conversation_history EXCEPT
             ![threads[t].session_id] = Append(@, AssistantRecord(threads[t].reply))])

\* the body of the response of a branch, from the cart as it is now
ResponseOf(thr, cart, items_added) ==
  IF thr.branch = "greeting"
  THEN IF TotalRaises(cart) THEN ServerError
       ELSE Json(OrderKeys \cup {"is_greeting"}, TRUE, cart, CartTotal(cart), thr.reply,
                 <<>>, TRUE, FALSE)
  ELSE IF thr.branch = "clear"
  THEN Json(OrderKeys, TRUE, <<>>, 0, thr.reply, <<>>, FALSE, FALSE)
  ELSE IF thr.branch = "checkout_empty"
  THEN Json(CheckoutKeys, FALSE, <<>>, 0, thr.reply, <<>>, FALSE, FALSE)
  ELSE IF thr.branch = "checkout"
  THEN Json(CheckoutKeys, TRUE, cart, thr.total, thr.reply, <<>>, FALSE, TRUE)
  ELSE IF thr.branch = "no_items"
  THEN IF TotalRaises(cart) THEN ServerError
       ELSE Json(OrderKeys, FALSE, cart, CartTotal(cart), thr.reply, <<>>, FALSE, FALSE)
  ELSE Json(OrderKeys, TRUE, cart, thr.total, thr.reply, items_added, FALSE, FALSE)

\* return jsonify(...) (app.py:344-351, 359-365, 379-385, 391-397, 408-414, 431-437)
Respond(t) ==
  /\ threads[t].pc = "respond"
  /\ Local(t, Return(threads[t],
                     ResponseOf(threads[t], CartSeen(t), CartOf(threads[t].items, dicts))))


\* the extractor returned the list `values`, as new dicts: nothing extracted composes
\* the no-items reply (app.py:404-405), else the loop over extracted_items begins
Extracted(thr, values) ==
  IF values = <<>>
  THEN StartGen([thr EXCEPT !.branch = "no_items"], "no_items", <<>>, 0, "append_assistant")
  ELSE [thr EXCEPT !.pc = "find", !.branch = "add", !.extracted = values, !.i = 1,
                   !.items = [k \in 1..Len(values) |-> Len(dicts) + k]]

\* extract_order_with_gemini raised: the request is answered 500
ExtractFailed(thr) == Return([thr EXCEPT !.branch = "extract_raised"], ServerError)

\* extracted_items = extract_order_with_gemini(user_text, context) (app.py:400): the
\* fallback without the service (app.py:75-76), else the thread waits for
\* model.generate_content (app.py:105)
Extract(t) ==
  /\ threads[t].pc = "extract"
  /\ IF configured THEN Local(t, [threads[t] EXCEPT !.pc = "extract_wait"])
     ELSE IF ExtractRaises(threads[t].text, FALSE, SvcNotCalled)
     THEN Local(t, ExtractFailed(threads[t]))
     ELSE Move(t, Extracted(threads[t], Fallback[threads[t].text]),
               dicts \o Fallback[threads[t].text], cart_ids, conversation_history)

\* the list the extractor returns after the service did svc
ExtractedWith(t, svc, values) ==
  Move(t, Extracted([threads[t] EXCEPT !.svc = svc], values), dicts \o values, cart_ids,
       conversation_history)

\* model.generate_content returns or raises, and the rest of extract_order_with_gemini
\* (app.py:105-149)
ExtractReturns(t, svc) ==
  /\ threads[t].pc = "extract_wait"
  /\ IF ExtractRaises(threads[t].text, TRUE, svc)
     THEN Local(t, ExtractFailed([threads[t] EXCEPT !.svc = svc]))
     ELSE ExtractedWith(t, svc, extract_order_with_gemini(threads[t].text, TRUE, svc))

\* next((x for x in carts[session_id] if x['key'] == item['key']), None), as the
\* identity of the dict found (0: None)
FindDict(ids, d, key) ==
  IF FindLine(CartOf(ids, d), key) = 0 THEN 0 ELSE ids[FindLine(CartOf(ids, d), key)]

\* existing_item = next(...) and if existing_item (app.py:418-419)
Find(t) ==
  /\ threads[t].pc = "find"
  /\ Local(t, [threads[t] EXCEPT
                 !.existing = FindDict(cart_ids[threads[t].session_id], dicts,
                                       dicts[threads[t].items[threads[t].i]].key),
                 !.pc = IF FindDict(cart_ids[threads[t].session_id], dicts,
                                    dicts[threads[t].items[threads[t].i]].key) = 0
                        THEN "append_line" ELSE "load"])

\* existing_item['quantity'] + item['quantity'] is computed (app.py:420)
Load(t) ==
  /\ threads[t].pc = "load"
  /\ Local(t, IF AddRaises(dicts[threads[t].existing].quantity,
                           dicts[threads[t].items[threads[t].i]].quantity)
              THEN Return(threads[t], ServerError)
              ELSE [threads[t] EXCEPT
                      !.pc = "store",
                      !.tmp = AddQuantity(dicts[threads[t].existing].quantity,
                                          dicts[threads[t].items[threads[t].i]].quantity)])

\* the loop goes on to its next item, or ends
Advance(thr) ==
  IF thr.i < Len(thr.items)
  THEN [thr EXCEPT !.pc = "find", !.i = @ + 1, !.existing = 0, !.tmp = JMissing]
  ELSE [thr EXCEPT !.pc = "total", !.existing = 0, !.tmp = JMissing]

\* mutant of Store: the sum is not stored
StoreNothing(t) ==
  /\ threads[t].pc = "store"
  /\ Local(t, Advance(threads[t]))

\* existing_item['quantity'] = the sum (app.py:420)
Store(t) ==
  /\ threads[t].pc = "store"
  /\ Move(t, Advance(threads[t]),
          [dicts EXCEPT ![threads[t].existing].quantity = threads[t].tmp],
          cart_ids, conversation_history)

\* carts[session_id].append(item) (app.py:422)
AppendLine(t) ==
  /\ threads[t].pc = "append_line"
  /\ Move(t, Advance(threads[t]), dicts,
          [cart_ids EXCEPT ![threads[t].session_id] =
             Append(@, threads[t].items[threads[t].i])],
          conversation_history)

\* total = sum(...) and the reply of the add (app.py:424-425)
Total(t) ==
  /\ threads[t].pc = "total"
  /\ Local(t, IF TotalRaises(CartSeen(t)) THEN Return(threads[t], ServerError)
              ELSE StartGen(threads[t], "add", CartOf(threads[t].items, dicts),
                            CartTotal(CartSeen(t)), "append_assistant"))

\* a welcome request arrives at thread t and composes its reply (app.py:452)
BeginWelcome(t) ==
  /\ threads[t].pc = "idle"
  /\ threads' = [threads EXCEPT ![t] = StartGen([IdleThread EXCEPT !.op = "welcome"],
                                                "welcome", <<>>, 0, "respond_welcome")]
  /\ run' = RunAfterBegin(t)
  /\ UNCHANGED <<configured, carts, conversation_history, response, last, nreq, cleared,
                 dicts, cart_ids>>

\* return jsonify({'response': response_text}) (app.py:453-455)
RespondWelcome(t) ==
  /\ threads[t].pc = "respond_welcome"
  /\ Local(t, Return(threads[t],
                     Json({"response"}, FALSE, <<>>, 0, threads[t].reply, <<>>, FALSE,
                          FALSE)))

\* a step of process_order on thread t that waits for nothing outside the server
HandlerStep(t) ==
  \/ CheckCart(t) \/ CreateCart(t) \/ CheckHistory(t) \/ CreateHistory(t)
  \/ AppendCustomerRecord(t) \/ CheckLength(t) \/ WriteSlice(t)
  \/ Greeting(t) \/ ClearStep(t) \/ CheckoutCheck(t) \/ CheckoutSum(t)
  \/ Extract(t) \/ Find(t) \/ Load(t) \/ Store(t) \/ AppendLine(t) \/ Total(t)
  \/ AppendAssistantRecord(t) \/ Respond(t)

(***************************************************************************)
(* Bounded inputs.                                                         *)
(***************************************************************************)
MaxRequests == 2
MaxLongRequests == 6

SessionIds == {"s1", "s2"}

Utterances ==
  {"Hi ", "clear my cart and checkout a burger", "ok I'm done with a burger",
   "a burger", "one burger", "two burgers and a pizza", "0 burger", "what is good"}

ServiceArrays ==
  { SvcArray(<<>>),
    SvcArray(<<Obj("burger", JInt(1)), Obj("burger", JInt(2))>>),
    SvcArray(<<Obj(" Pizza ", JMissing), Obj("sushi", JInt(1))>>),
    SvcArray(<<Obj("cheeseburgers", JInt(2))>>),
    SvcArray(<<ObjNoItem(JInt(0))>>),
    SvcArray(<<Obj("burger", JInt(-1))>>),
    SvcArray(<<Obj("burger", JNull)>>),
    SvcArray(<<Obj("pizza", JInt(1)), Obj("burger", JStr)>>),
    SvcArray(<<Obj("pizza", JInt(1)), NonObject>>),
    SvcArray(<<ObjNullItem(JInt(1))>>) }

\* the requests of the specification: every utterance with a failing service, and one
\* utterance with every reply of the service
OrderInputs ==
  {[text |-> u, svc |-> s] : u \in Utterances, s \in {SvcRaise}}
    \cup {[text |-> "a burger", svc |-> s] : s \in ServiceArrays \cup {SvcNoJson}}

GenOutcomes == {GenRaise, GenText(" 'Yum!' ")}

Next ==
  \/ \E session_id \in SessionIds, in \in OrderInputs, gen \in GenOutcomes :
       nreq < MaxRequests /\ ProcessOrder(session_id, in.text, in.svc, gen)
  \/ \E session_id \in SessionIds : nreq < MaxRequests /\ GetCart(session_id)
  \/ \E gen \in GenOutcomes : nreq < MaxRequests /\ GetWelcome(gen)

Spec == Init /\ [][Next]_vars

\* one session, with two utterances, over enough requests to fill its history
LongInputs == {[text |-> u, svc |-> SvcRaise] : u \in {"Hi ", "a burger"}}

NextLong ==
  \E in \in LongInputs, gen \in GenOutcomes :
    nreq < MaxLongRequests /\ ProcessOrder("s1", in.text, in.svc, gen)

SpecLong == Init /\ [][NextLong]_vars

\* one session through its life: orders (one of them answered by the service with a
\* null quantity), greetings, clears, checkouts and cart lookups
MaxSessionRequests == 4

SessionInputs ==
  {[text |-> u, svc |-> SvcRaise] :
     u \in {"Hi ", "a burger", "what is good", "clear my cart and checkout a burger",
            "ok I'm done with a burger"}}
    \cup {[text |-> "a burger", svc |-> SvcArray(<<Obj("burger", JNull)>>)]}

NextSession ==
  \/ \E in \in SessionInputs, gen \in GenOutcomes :
       nreq < MaxSessionRequests /\ ProcessOrder("s1", in.text, in.svc, gen)
  \/ \E session_id \in SessionIds : nreq < MaxSessionRequests /\ GetCart(session_id)

SpecSession == Init /\ [][NextSession]_vars

\* two sessions served in turn, each request in any of the handler's branches
MaxPairRequests == 3

PairInputs ==
  {[text |-> u, svc |-> SvcRaise] :
     u \in {"Hi ", "a burger", "what is good", "clear my cart and checkout a burger",
            "ok I'm done with a burger"}}
    \cup {[text |-> "a burger",
           svc |-> SvcArray(<<Obj("burger", JInt(1)), Obj("burger", JInt(2))>>)]}

NextPair ==
  \E session_id \in SessionIds, in \in PairInputs :
    nreq < MaxPairRequests /\ ProcessOrder(session_id, in.text, in.svc, GenRaise)

SpecPair == Init /\ [][NextPair]_vars

\* one session, with utterances that try the classifier and the fallback extraction
MaxUtteranceRequests == 2

UtteranceCases ==
  {"please", " PLEASE ", "please anything", "please a burger",
   "I'd like a cheeseburger and two sodas", "another burger", "two burgers and a pizza",
   "burger and fries", "3 chicken wings", "twelve sodas", "burger or two burgers",
   "0 burger", "U+00B2 burger", "what is good"}

NextUtterance ==
  \E user_text \in UtteranceCases :
    nreq < MaxUtteranceRequests /\ ProcessOrder("s1", user_text, SvcRaise, GenRaise)

SpecUtterance == Init /\ [][NextUtterance]_vars

\* the stores after n requests "a burger" of session s1, each extracted and answered
\* by the fallbacks
RECURSIVE StoresAfter(_)
StoresAfter(n) ==
  IF n = 0 THEN [carts |-> <<>>, history |-> <<>>]
  ELSE [carts |-> process_order(StoresAfter(n - 1).carts, StoresAfter(n - 1).history,
                                FALSE, "s1", "a burger", SvcNotCalled, GenNotCalled).carts,
        history |-> process_order(StoresAfter(n - 1).carts, StoresAfter(n - 1).history,
                                  FALSE, "s1", "a burger", SvcNotCalled,
                                  GenNotCalled).history]

\* the numbers of earlier requests the threads start after: none, one, and as many as
\* fill the history
EarlierRequests == {0, 1, HISTORY_MAX \div 2}

\* the server with idle threads, after n earlier requests of session s1
InitAfter(n) ==
  /\ configured \in BOOLEAN
  /\ carts = StoresAfter(n).carts
  /\ conversation_history = StoresAfter(n).history
  /\ response = NoResponse
  /\ last = NoRequest
  /\ nreq = 0
  /\ cleared = <<>>
  /\ threads = [t \in Threads |-> IdleThread]
  /\ dicts = IF n = 0 THEN <<>> ELSE StoresAfter(n).carts["s1"]
  /\ cart_ids = [s \in DOMAIN StoresAfter(n).carts |->
                   [k \in 1..Len(StoresAfter(n).carts[s]) |-> k]]
  /\ run = NoRun

\* two requests of one session, served by two threads whose steps interleave; the
\* external calls fail, so that extraction and replies are the fallbacks
RaceTexts ==
  {"Hi ", "a burger", "what is good", "clear my cart and checkout a burger",
   "ok I'm done with a burger"}

InitRace == \E n \in EarlierRequests : InitAfter(n)

NextRace ==
  \E t \in Threads :
    \/ \E user_text \in RaceTexts : BeginOrder(t, "s1", user_text)
    \/ HandlerStep(t)
    \/ ExtractReturns(t, SvcRaise)
    \/ GenReturns(t, GenRaise)

SpecRace == InitRace /\ [][NextRace]_vars

\* one request, process-order or welcome, served step by step; the external service
\* answers, fails, or never does: the server's own steps are taken when they can be
\* (each request runs on its thread), nothing makes the service answer
ServeSvc ==
  {SvcRaise, SvcNoJson, SvcArray(<<>>), SvcArray(<<Obj("burger", JInt(1))>>)}

ServerStep == HandlerStep(1) \/ RespondWelcome(1)

ServiceAnswers ==
  \/ \E svc \in ServeSvc : ExtractReturns(1, svc)
  \/ \E gen \in GenOutcomes : GenReturns(1, gen)

NextServe ==
  \/ \E user_text \in RaceTexts : BeginOrder(1, "s1", user_text)
  \/ BeginWelcome(1)
  \/ ServerStep
  \/ ServiceAnswers

SpecServe == InitRace /\ [][NextServe]_vars /\ WF_vars(ServerStep)

\* the same, with a service that always answers or fails in the end
SpecServeAnswered == SpecServe /\ WF_vars(ServiceAnswers)

(***************************************************************************)
(* Properties.                                                             *)
(***************************************************************************)
\* the last request was a process-order request
Ordered == last.op = "process_order"

\* the stored cart and history of the last request's session
CartNow == GetOr(carts, last.session_id)
HistoryNow == GetOr(conversation_history, last.session_id)

\* the quantities of a cart are integers
WellTyped(cart) == \A i \in 1..Len(cart) : cart[i].quantity.type = "int"

RECURSIVE MenuTotal(_)
\* the sum over the lines of quantity times the menu price of the line's key
MenuTotal(cart) ==
  IF cart = <<>> THEN 0
  ELSE Head(cart).quantity.val * MENU[Head(cart).key].price + MenuTotal(Tail(cart))

\* C1: every session's cart holds at most one line item per menu key.
OneLinePerKey ==
  \A s \in DOMAIN carts :
    \A i, j \in 1..Len(carts[s]) : carts[s][i].key = carts[s][j].key => i = j

\* an extraction that lists one key twice was merged into a cart
OneLinePerKeyWitness ==
  /\ Ordered /\ last.branch = "add" /\ response.status = 200
  /\ \E i, j \in 1..Len(last.extracted) :
       i # j /\ last.extracted[i].key = last.extracted[j].key
  /\ Len(CartNow) = 1

\* the cart the merge contract gives: each item in turn grows the line of its key,
\* in place, or is appended at the end
RECURSIVE MergeContract(_, _)
MergeContract(cart, items) ==
  IF items = <<>> THEN cart
  ELSE LET item == Head(items)
           at == {i \in 1..Len(cart) : cart[i].key = item.key}
       IN  IF at = {} THEN MergeContract(Append(cart, item), Tail(items))
           ELSE MergeContract(
                  [cart EXCEPT ![Min(at)].quantity = JInt(@.val + item.quantity.val)],
                  Tail(items))

\* C2: an order request that extracted items leaves the cart the merge contract gives:
\* the line of an extracted key grows by the extracted quantity and keeps its position,
\* a new key is appended at the end, no line is reordered or removed.
CartMergeContract ==
  Ordered /\ last.branch = "add" =>
    CartNow = MergeContract(last.cart_before, last.extracted)

\* C2, on carts and extractions whose quantities are integers (lemma)
CartMergeContractTyped ==
  Ordered /\ last.branch = "add" /\ WellTyped(last.cart_before) /\ WellTyped(last.extracted) =>
    CartNow = MergeContract(last.cart_before, last.extracted)

\* C3: the total a response returns is the sum over the session's stored cart of
\* quantity times the menu price of the line's key.
TotalIsCartSum ==
  response.status = 200 /\ "total" \in response.keys =>
    /\ WellTyped(CartNow)
    /\ response.total = MenuTotal(CartNow)

\* an add response over a cart of two lines
TotalIsCartSumWitness ==
  /\ Ordered /\ last.branch = "add" /\ response.status = 200
  /\ Len(CartNow) = 2 /\ last.cart_before # <<>>
  /\ response.total = MenuTotal(CartNow) /\ response.total > 0

\* a history is the most recent records of `before` followed by the records appended
KeepsMostRecent(before, now) ==
  \E n \in 1..2 : \E k \in 0..Len(before) :
    /\ Len(now) = Len(before) - k + n
    /\ SubSeq(now, 1, Len(before) - k) = SubSeq(before, k + 1, Len(before))

\* C4: a conversation history has at most 10 records, and the records dropped are
\* the oldest.
HistoryBounded ==
  /\ \A s \in DOMAIN conversation_history : Len(conversation_history[s]) <= HISTORY_MAX
  /\ Ordered => KeepsMostRecent(last.history_before, HistoryNow)

\* C4, the eviction order alone (lemma)
HistoryDropsOldest == Ordered => KeepsMostRecent(last.history_before, HistoryNow)

\* C5: the branch of a request is chosen in the order casual, clear, checkout, order;
\* the clear branch empties the cart and the checkout branch adds nothing, whatever
\* else the utterance contains.
BranchPriority ==
  Ordered =>
    LET text == Str[last.text]
        casual == is_greeting_or_casual(text)
        clear == AnyIn(clear_words, Lower(text))
        checkout == AnyIn(checkout_phrases, Lower(text))
    IN  /\ casual => last.branch = "greeting"
        /\ ~casual /\ clear =>
             /\ last.branch = "clear" /\ CartNow = <<>> /\ ~last.extractor_called
             /\ response.status = 200 /\ response.keys = OrderKeys /\ response.cart = <<>>
        /\ ~casual /\ ~clear /\ checkout =>
             /\ last.branch \in {"checkout", "checkout_empty"}
             /\ CartNow = last.cart_before /\ ~last.extractor_called
             /\ response.status = 200 => response.keys = CheckoutKeys
        /\ ~casual /\ ~clear /\ ~checkout =>
             last.branch \in {"no_items", "add", "extract_raised"} /\ last.extractor_called

\* an utterance with a clear word, a checkout phrase and a menu key cleared a cart
BranchPriorityWitness ==
  /\ Ordered /\ last.text = "clear my cart and checkout a burger"
  /\ last.cart_before # <<>> /\ CartNow = <<>>

\* C6: a casual request never invokes the extractor and answers is_greeting with no
\* item added and the cart and total of before the request.
CasualLeavesCart ==
  Ordered /\ is_greeting_or_casual(Str[last.text]) =>
    /\ ~last.extractor_called
    /\ CartNow = last.cart_before
    /\ response.status = 200
    /\ "is_greeting" \in response.keys /\ response.is_greeting
    /\ response.items_added = <<>>
    /\ response.cart = last.cart_before
    /\ response.total = MenuTotal(last.cart_before)

\* C6, the part about the stores (lemma)
CasualLeavesCartStored ==
  Ordered /\ is_greeting_or_casual(Str[last.text]) =>
    ~last.extractor_called /\ CartNow = last.cart_before

\* C7: every extracted item and every cart line has a menu key and an integer
\* quantity >= 1.
QuantitiesPositive ==
  /\ \A i \in 1..Len(last.extracted) :
       /\ last.extracted[i].key \in DOMAIN MENU
       /\ last.extracted[i].quantity.type = "int"
       /\ last.extracted[i].quantity.val >= 1
  /\ \A s \in DOMAIN carts : \A i \in 1..Len(carts[s]) :
       /\ carts[s][i].key \in DOMAIN MENU
       /\ carts[s][i].quantity.type = "int"
       /\ carts[s][i].quantity.val >= 1

\* C7, the keys alone (lemma)
KeysAreMenuKeys ==
  /\ \A i \in 1..Len(last.extracted) : last.extracted[i].key \in DOMAIN MENU
  /\ \A s \in DOMAIN carts : \A i \in 1..Len(carts[s]) : carts[s][i].key \in DOMAIN MENU

\* the reply of the extraction service is an exception, no JSON, or JSON of the wrong
\* shape: an element that is no object, an item that is no string, a quantity that is
\* no number
BadReply(svc) ==
  \/ svc.kind \in {"raise", "nojson"}
  \/ /\ svc.kind = "array"
     /\ \E i \in 1..Len(svc.elems) :
          \/ ~svc.elems[i].obj
          \/ svc.elems[i].item.type = "null"
          \/ svc.elems[i].quantity.type \in {"null", "str"}

\* C8: whatever the extraction call does, the request is answered normally, from the
\* fallback extraction when the call failed or its reply was malformed.
ExtractionFailureFallsBack ==
  Ordered /\ last.svc.kind # "notcalled" =>
    /\ response.status = 200
    /\ BadReply(last.svc) => last.extracted = fallback_extract_order(Str[last.text])

\* the text of a reply is not empty
NonEmptyText(text) == \E i \in 1..Len(text) : text[i] # ""

\* the handler's result on the last request, had the generation call done `gen`
Replay(gen) ==
  process_order(IF last.known_before THEN (last.session_id :> last.cart_before) ELSE <<>>,
                IF last.known_before THEN (last.session_id :> last.history_before) ELSE <<>>,
                configured, last.session_id, last.text, last.svc, gen)

\* two histories differ at most in the text of their last record
SameButLastText(h1, h2) ==
  /\ Len(h1) = Len(h2)
  /\ \A i \in 1..Len(h1) : h1[i].speaker = h2[i].speaker
  /\ \A i \in 1..(Len(h1) - 1) : h1[i] = h2[i]

\* the action of the last request's reply, "" when the reply is not composed
ReplyAction ==
  IF last.op = "welcome" THEN "welcome"
  ELSE IF ~Ordered \/ response.status # 200 THEN ""
  ELSE IF last.branch = "greeting" THEN "greeting"
  ELSE IF last.branch = "add" THEN "add"
  ELSE IF last.branch = "no_items" THEN "no_items"
  ELSE IF last.branch = "checkout" THEN "checkout"
  ELSE ""

\* C9: with the generation service unconfigured or failing, the reply is the static
\* fallback text of the action, not empty, and the request writes the stores it writes
\* when the call succeeds, but for the text of the assistant's record.
FallbackReply ==
  /\ ReplyAction # "" /\ (~configured \/ last.gen.kind = "raise") =>
       /\ response.response =
            get_fallback_response(ReplyAction, response.items_added, response.total)
       /\ NonEmptyText(response.response)
  /\ Ordered /\ (~configured \/ last.gen.kind = "raise") =>
       LET r == Replay(GenText(" 'Yum!' "))
       IN  /\ r.carts[last.session_id] = CartNow
           /\ r.response.status = response.status
           /\ SameButLastText(r.history[last.session_id], HistoryNow)
           /\ response.status = 200 /\ last.branch # "clear" =>
                AssistantRecord(response.response) = HistoryNow[Len(HistoryNow)]

\* the generation call failed on an add and the reply is the fallback text
FallbackReplyWitness ==
  /\ Ordered /\ configured /\ last.gen.kind = "raise" /\ last.branch = "add"
  /\ response.status = 200
  /\ response.response = get_fallback_response("add", response.items_added, response.total)
  /\ Replay(GenText(" 'Yum!' ")).response.response # response.response

\* C10: an order request that extracts nothing answers success false with no item
\* added and the cart and total of before the request.
NoItemsLeavesCart ==
  Ordered /\ last.branch = "no_items" =>
    /\ CartNow = last.cart_before
    /\ response.status = 200
    /\ ~response.success
    /\ response.items_added = <<>>
    /\ response.cart = last.cart_before
    /\ response.total = MenuTotal(last.cart_before)

\* C10, the part about the stores (lemma)
NoItemsLeavesCartStored ==
  Ordered /\ last.branch = "no_items" => CartNow = last.cart_before

\* C11: from a clear-cart request of a session until the next order request that adds
\* items to it, the session's cart is empty and every cart lookup for it returns an
\* empty cart and total 0, whatever the cart held when it was cleared.
ClearedCartStaysEmpty ==
  /\ \A s \in DOMAIN cleared : GetOr(carts, s) = <<>>
  /\ last.op = "get_cart" /\ last.session_id \in DOMAIN cleared =>
       /\ response.status = 200
       /\ response.keys = {"cart", "total"}
       /\ response.cart = <<>>
       /\ response.total = 0

\* a cart that held a line was cleared, another request followed, and the cart is
\* looked up
ClearedCartStaysEmptyWitness ==
  /\ last.op = "get_cart" /\ last.session_id \in DOMAIN cleared
  /\ cleared[last.session_id] # <<>>
  /\ Len(HistoryNow) >= 5
  /\ response.cart = <<>>

\* C12: a cart lookup changes neither the sessions nor any cart or history, and for a
\* session id never used it answers an empty cart and total 0, not an error.
LookupChangesNothing ==
  [][last'.op = "get_cart" =>
       /\ carts' = carts
       /\ conversation_history' = conversation_history
       /\ ~last'.known_before =>
            /\ last'.session_id \notin DOMAIN carts' \cup DOMAIN conversation_history'
            /\ response'.status = 200
            /\ response'.keys = {"cart", "total"}
            /\ response'.cart = <<>>
            /\ response'.total = 0]_vars

\* the cart of a session id never used was looked up while another session had a cart
LookupChangesNothingWitness ==
  /\ last.op = "get_cart" /\ ~last.known_before
  /\ last.session_id \notin DOMAIN carts
  /\ \E s \in DOMAIN carts : carts[s] # <<>>
  /\ response.status = 200 /\ response.cart = <<>> /\ response.total = 0

\* C13: a process-order request for one session id leaves the cart and the history of
\* every other session id as they were, in every branch; no line of one session's cart
\* changes with a line of another's.
SessionsAreSeparate ==
  [][last'.op = "process_order" =>
       /\ DOMAIN carts' = DOMAIN carts \cup {last'.session_id}
       /\ DOMAIN conversation_history' = DOMAIN conversation_history \cup {last'.session_id}
       /\ \A b \in DOMAIN carts \ {last'.session_id} : carts'[b] = carts[b]
       /\ \A b \in DOMAIN conversation_history \ {last'.session_id} :
            conversation_history'[b] = conversation_history[b]]_vars

\* a request grew a line of one session's cart while another session's cart held a
\* line of the same key, which kept its quantity
SessionsAreSeparateWitness ==
  /\ Ordered /\ last.branch = "add" /\ last.cart_before # <<>>
  /\ CartNow # last.cart_before
  /\ \E b \in DOMAIN carts \ {last.session_id} :
       /\ carts[b] # <<>>
       /\ carts[b][1].key = CartNow[1].key
       /\ carts[b][1].quantity # CartNow[1].quantity
       /\ conversation_history[b] # <<>>

\* s begins with prefix
StartsWith(s, prefix) == Len(s) >= Len(prefix) /\ SubSeq(s, 1, Len(prefix)) = prefix

\* the utterance, trimmed and case folded, begins with "please"
BeginsWithPlease(user_text) ==
  StartsWith(Strip(Lower(Str[user_text]), Whitespace), Str["please"])

\* C16: every utterance that begins with "please", compared after trimming and case
\* folding, is classified casual: the request answers with a greeting reply, the
\* extractor is not invoked and no item is added to the cart.
PleaseIsCasual ==
  Ordered /\ BeginsWithPlease(last.text) =>
    /\ last.branch = "greeting"
    /\ ~last.extractor_called
    /\ CartNow = last.cart_before
    /\ response.status = 200
    /\ "is_greeting" \in response.keys /\ response.is_greeting
    /\ response.items_added = <<>>

\* C16, for the utterance that is "please" and nothing more (lemma)
PleaseAloneIsCasual ==
  Ordered /\ Strip(Lower(Str[last.text]), Whitespace) = Str["please"] =>
    /\ last.branch = "greeting"
    /\ ~last.extractor_called
    /\ CartNow = last.cart_before
    /\ response.status = 200 /\ response.is_greeting /\ response.items_added = <<>>

\* the request ran the extraction on the fallback path
OnFallbackPath == Ordered /\ last.extractor_called /\ last.svc.kind \in {"notcalled", "raise"}

\* C17: with the fallback extraction, "I'd like a cheeseburger and two sodas" on an
\* empty cart answers a cart of exactly cheeseburger x1 and soda x2 and total 15.97.
CheeseburgerAndTwoSodas ==
  /\ OnFallbackPath /\ last.text = "I'd like a cheeseburger and two sodas"
  /\ last.cart_before = <<>>
  =>
  /\ response.status = 200
  /\ Len(response.cart) = 2
  /\ \E i \in 1..Len(response.cart) :
       response.cart[i].key = "cheeseburger" /\ response.cart[i].quantity = JInt(1)
  /\ \E i \in 1..Len(response.cart) :
       response.cart[i].key = "soda" /\ response.cart[i].quantity = JInt(2)
  /\ response.total = 1597
  /\ CartNow = response.cart

\* the words a quantity is read from, with their values
NumberWords == <<"one", "two", "three", "four", "five", "six", "seven", "eight", "nine", "ten">>

\* the value of a literal integer, read from its first digit on
RECURSIVE LiteralValue(_, _)
LiteralValue(word, acc) ==
  IF word = <<>> THEN acc
  ELSE LiteralValue(Tail(word),
                    10 * acc + CHOOSE d \in 0..9 : ToString(d) = Head(word))

\* the quantity a word states: a number word, "a", "an", a literal integer; else 1
StatedQuantity(word) ==
  IF \E n \in 1..Len(NumberWords) : Str[NumberWords[n]] = word
  THEN CHOOSE n \in 1..Len(NumberWords) : Str[NumberWords[n]] = word
  ELSE IF word \in {Str["a"], Str["an"]} THEN 1
  ELSE IF word # <<>> /\ \A k \in 1..Len(word) : word[k] \in Digits THEN LiteralValue(word, 0)
  ELSE 1

\* the word that ends at index j of t
WordEndingAt(t, j) ==
  SubSeq(t, Min({s \in 1..j : \A k \in s..j : t[k] \in WordChars}), j)

\* the places where the key occurs in t right after a word and white space, each with
\* the index where that word ends
PrecededOccurrences(t, key) ==
  {<<i, j>> \in (1..Len(t)) \X (1..Len(t)) :
     /\ j < i - 1
     /\ OccursAt(key, t, i)
     /\ t[j] \in WordChars
     /\ \A k \in (j + 1)..(i - 1) : t[k] \in Whitespace}

\* the quantity the claim gives a key in t: the one stated by the word before the key
\* (at the first place where a word precedes it), 1 when no word precedes it
ClaimedQuantity(t, key) ==
  LET occ == PrecededOccurrences(t, key)
  IN  IF occ = {} THEN 1
      ELSE LET first == CHOOSE p \in occ : \A q \in occ : p[1] <= q[1]
           IN  StatedQuantity(WordEndingAt(t, first[2]))

\* the list the claim gives an utterance: one item per menu key in it, in catalog order
ClaimedExtraction(user_text) ==
  LET t == Lower(user_text)
      keys == SelectSeq(MenuKeys, LAMBDA k : \E i \in 1..Len(t) : OccursAt(Str[k], t, i))
  IN  [n \in 1..Len(keys) |->
         [key |-> keys[n], name |-> MENU[keys[n]].name, price |-> MENU[keys[n]].price,
          quantity |-> JInt(ClaimedQuantity(t, Str[keys[n]]))]]

\* C18: the fallback extraction returns, for every utterance, one item per menu key
\* that occurs in the lowercased utterance, in catalog order, with the quantity stated
\* by the word before the key (a number word one..ten, "a", "an" or a literal integer)
\* and 1 otherwise.
FallbackExtractionContract ==
  OnFallbackPath =>
    /\ last.branch \in {"add", "no_items"}
    /\ last.extracted = ClaimedExtraction(Str[last.text])

\* C18, for the utterances whose fallback extraction does not raise (lemma)
FallbackExtractionContractUnlessRaised ==
  OnFallbackPath /\ last.branch # "extract_raised" =>
    last.extracted = ClaimedExtraction(Str[last.text])

\* C18, the example (lemma)
FallbackExtractionExample ==
  OnFallbackPath /\ last.text = "two burgers and a pizza" =>
    last.extracted = <<LineItem("burger", JInt(2)), LineItem("pizza", JInt(1))>>

\* C19: a checkout request never changes the session's cart: on a cart with lines it
\* answers success and checkout true with the cart and its total as they were, and on
\* an empty cart success and checkout false with an empty cart and total 0.
CheckoutKeepsCart ==
  Ordered /\ last.branch \in {"checkout", "checkout_empty"} =>
    /\ CartNow = last.cart_before
    /\ response.status = 200 /\ response.keys = CheckoutKeys
    /\ last.cart_before # <<>> =>
         /\ response.success /\ response.checkout
         /\ response.cart = last.cart_before
         /\ response.total = MenuTotal(last.cart_before)
    /\ last.cart_before = <<>> =>
         /\ ~response.success /\ ~response.checkout
         /\ response.cart = <<>>
         /\ response.total = 0

\* C19, the part about the stores: the cart is not emptied (lemma)
CheckoutKeepsCartStored ==
  Ordered /\ last.branch \in {"checkout", "checkout_empty"} => CartNow = last.cart_before

\* C20: items_added of an add response lists the items the extractor returned, with
\* the extracted quantities, also for a key already in the cart and for a key listed
\* twice in one extraction.
ItemsAddedAreExtracted ==
  Ordered /\ last.branch = "add" /\ response.status = 200 =>
    response.items_added = last.extracted

\* C20, for extractions of integer quantities that list no key twice (lemma)
ItemsAddedAreExtractedDistinct ==
  /\ Ordered /\ last.branch = "add" /\ WellTyped(last.cart_before)
  /\ WellTyped(last.extracted)
  /\ \A i, j \in 1..Len(last.extracted) :
       last.extracted[i].key = last.extracted[j].key => i = j
  =>
  /\ response.status = 200
  /\ response.items_added = last.extracted

\* every thread has answered its request
AllDone == \A t \in Threads : threads[t].pc = "done"

\* what process_order leaves when it serves the request of thread t alone, on the
\* stores c and h, the external calls failing as they do for the threads
AloneOn(c, h, t) ==
  process_order(c, h, configured, threads[t].session_id, threads[t].text, SvcRaise, GenRaise)

AloneAfter(r, t) == AloneOn(r.carts, r.history, t)

\* what the two requests leave when thread a's is served whole before thread b's
Sequential(a, b) == AloneAfter(AloneOn(run.carts, run.history, a), b)

SequentialOrders == {<<1, 2>>, <<2, 1>>}

\* the stores are the ones a sequential execution of the two requests leaves
IsSequential ==
  \E o \in SequentialOrders :
    /\ carts = Sequential(o[1], o[2]).carts
    /\ conversation_history = Sequential(o[1], o[2]).history

RECURSIVE QuantityOf(_, _)
\* the quantity a cart holds of a key, over all its lines
QuantityOf(cart, key) ==
  IF cart = <<>> THEN 0
  ELSE (IF Head(cart).key = key THEN Head(cart).quantity.val ELSE 0)
       + QuantityOf(Tail(cart), key)

\* the cart holds less of some key than after every sequential execution
LostQuantity ==
  \A o \in SequentialOrders : \E key \in DOMAIN MENU :
    QuantityOf(carts["s1"], key) < QuantityOf(Sequential(o[1], o[2]).carts["s1"], key)

\* the history holds fewer records than after every sequential execution
LostRecord ==
  \A o \in SequentialOrders :
    Len(conversation_history["s1"]) < Len(Sequential(o[1], o[2]).history["s1"])

\* the cart holds two lines for one key
DuplicateLine ==
  \E i, j \in 1..Len(carts["s1"]) : i # j /\ carts["s1"][i].key = carts["s1"][j].key

\* C14: process_order takes no lock, so two requests of one session that overlap can
\* leave stores that no sequential execution of the two leaves (a quantity or a
\* history record lost, two lines for one key); requests that do not overlap, and a
\* request served alone, leave the stores of the sequential execution.
OnlyOverlapBreaksSequential ==
  /\ AllDone /\ ~run.overlapped => IsSequential
  /\ \A t \in Threads :
       threads[t].pc = "done" /\ (\A u \in Threads \ {t} : threads[u].pc = "idle") =>
         /\ carts = AloneOn(run.carts, run.history, t).carts
         /\ conversation_history = AloneOn(run.carts, run.history, t).history
         /\ threads[t].response = AloneOn(run.carts, run.history, t).response

\* two overlapping requests have left stores that no sequential execution leaves, with
\* one of the three losses
OnlyOverlapBreaksSequentialWitness ==
  /\ AllDone /\ run.overlapped /\ ~IsSequential
  /\ LostQuantity \/ LostRecord \/ DuplicateLine

\* C14, each loss alone: reached when its negation is violated (lemmas)
NoLostQuantity == ~(AllDone /\ ~IsSequential /\ LostQuantity /\ ~LostRecord /\ ~DuplicateLine)
NoLostRecord == ~(AllDone /\ ~IsSequential /\ LostRecord /\ ~LostQuantity /\ ~DuplicateLine)
NoDuplicateLine == ~(AllDone /\ ~IsSequential /\ DuplicateLine)
\* C14, the statement it denies: the stores are always those of a sequential execution
AlwaysSequential == AllDone => IsSequential

\* C15: every process-order and welcome request returns a response in the end, also
\* when the external service never answers: the call is bounded by a timeout, after
\* which the request goes on with the fallback.
EveryRequestReturns ==
  \A t \in Threads : (threads[t].pc # "idle") ~> (threads[t].pc = "done")

\* C15, without the service configured: no request waits (lemma)
ReturnsWithoutService ==
  \A t \in Threads : (~configured /\ threads[t].pc # "idle") ~> (threads[t].pc = "done")

\* C15, the fallback after a failed call: the request that a failing service answered
\* was extracted and answered by the fallbacks (lemma)
FailedCallFallsBack ==
  \A t \in Threads :
    /\ threads[t].pc = "done" /\ threads[t].svc = SvcRaise /\ threads[t].branch = "add" =>
         threads[t].extracted = Fallback[threads[t].text]
    /\ threads[t].pc = "done" /\ threads[t].gen = GenRaise /\ threads[t].response.status = 200 =>
         threads[t].response.response =
           get_fallback_response(threads[t].action, threads[t].response.items_added,
                                 threads[t].total)
====
